---- MODULE Spec2Model ----
(***************************************************************************)
(* PrepGPT: the rubric evaluator, the analyze-interview and                *)
(* generate-questions handlers and the interview session of the browser   *)
(* client.                                                                 *)
(*                                                                         *)
(* The repository holds two generations of the server: the rubric server  *)
(* (the server half of src/public/app.js, repeated in                      *)
(* src/unnamed/part_000) and the older src/server.js.  The variable       *)
(* `build` says which of them answers the requests.                        *)
(***************************************************************************)
EXTENDS Integers, Sequences, FiniteSets, TLC

VARIABLES
    build,          \* which server file answers: "app" (public/app.js, part_000) or "server"
    hasApiKey,      \* server: OPENAI_API_KEY is configured
    response,       \* <<>> or the one HTTP response of the handler under study
    transcript,     \* evaluator: the text handed to evaluateTranscript
    evaluation,     \* evaluator: <<>> or its result
    analyzeBody,    \* analyze-interview: <<>> or what req.body holds beside the answers
    qaPairs,        \* analyze-interview: req.body.qaPairs when it is an array
    scorerReply,    \* analyze-interview: <<>> or the external scorer's reply
    genRequest,     \* generate-questions: req.body
    modelReplies,   \* generate-questions: the replies of the model calls, in order
    screen,         \* client: the screen shown
    questions,      \* client: state.questions
    answers,        \* client: state.answers
    currentIndex,   \* client: state.currentIndex
    generatedFollowUps,       \* client: state.generatedFollowUps
    dynamicFollowUpsEnabled,  \* client: state.dynamicFollowUpsEnabled
    answerText,     \* client: answerTranscript.value
    nextDisabled,   \* client: nextBtn.disabled
    followUp,       \* client: what the last saved answer did about a follow-up
    alerted,        \* client: the last handled event ended in an alert
    lastAnalysis,   \* client: state.lastAnalysis, <<>> for null
    currentUser,    \* client: state.currentUser, <<>> for null
    users,          \* localStorage: the accounts, by email
    clock,          \* the time new Date() reads
    inFlight,       \* client: the saveAnswerAndContinue calls that await a follow-up response
    transcriptions, \* client: the transcription requests that await their response
    languageInput,  \* client: interviewLanguageInput.value
    interviewLanguage,  \* client: state.interviewLanguage
    sentLanguage    \* client: the language sent with the requests of the interview

evalVars == <<transcript, evaluation>>

analyzeVars == <<analyzeBody, qaPairs, scorerReply>>

generateVars == <<genRequest, modelReplies>>

pendingVars == <<inFlight, transcriptions>>

languageVars == <<languageInput, interviewLanguage, sentLanguage>>

sessionVars ==
    <<screen, questions, answers, currentIndex, generatedFollowUps, dynamicFollowUpsEnabled,
      answerText, nextDisabled, followUp, alerted, pendingVars, languageVars>>

accountVars == <<lastAnalysis, currentUser, users, clock>>

serverVars == <<build, hasApiKey, response>>

vars ==
    <<build, hasApiKey, response, transcript, evaluation, analyzeBody, qaPairs, scorerReply,
      genRequest, modelReplies, screen, questions, answers, currentIndex, generatedFollowUps,
      dynamicFollowUpsEnabled, answerText, nextDisabled, followUp, alerted, lastAnalysis,
      currentUser, users, clock, inFlight, transcriptions, languageInput, interviewLanguage,
      sentLanguage>>

(* no request of the interview was sent yet *)
NothingSent == [generation |-> <<>>, followUp |-> <<>>, analysis |-> <<>>]

(* nothing awaits a response; the language is the one the page loads with *)
ClientIdle ==
    /\ inFlight = <<>>
    /\ transcriptions = {}
    /\ languageInput = "English"
    /\ interviewLanguage = "English"
    /\ sentLanguage = NothingSent

(* the client before anyone touches it *)
SessionIdle ==
    /\ screen = "setup"
    /\ questions = <<>>
    /\ answers = <<>>
    /\ currentIndex = 0
    /\ generatedFollowUps = 0
    /\ dynamicFollowUpsEnabled = TRUE
    /\ answerText = <<>>
    /\ nextDisabled = TRUE
    /\ followUp = "notCalled"
    /\ alerted = FALSE
    /\ ClientIdle

Emails == {"ada@example.com", "bob@example.com"}

(* localStorage without accounts *)
NoAccounts == [email \in Emails |-> <<>>]

(* nobody has signed up or logged in *)
AccountIdle ==
    /\ lastAnalysis = <<>>
    /\ currentUser = <<>>
    /\ users = NoAccounts
    /\ clock = 0

Builds == {"app", "server"}

(***************************************************************************)
(* Transcripts.  A transcript is a run-length encoded text: a sequence of  *)
(* segments, segment [w, n] standing for the token w written n times with  *)
(* whitespace in between.  " " and "\n" are whitespace runs.               *)
(***************************************************************************)
MaxSeg == 4

Vocab == <<" ", "project", "goal", "designed", "reduced", "Improved", "40%", "um", "stuff", "\n">>

Reps == {1, 5, 40, 300}

Segments == [w : {Vocab[i] : i \in 1..Len(Vocab)}, n : Reps]

IndexOf(w) == CHOOSE i \in 1..Len(Vocab) : Vocab[i] = w

IsSpace(w) == w \in {" ", "\n"}

RECURSIVE trimStart(_)
trimStart(t) == IF t # <<>> /\ IsSpace(Head(t).w) THEN trimStart(Tail(t)) ELSE t

RECURSIVE trimEnd(_)
trimEnd(t) ==
    IF t # <<>> /\ IsSpace(t[Len(t)].w) THEN trimEnd(SubSeq(t, 1, Len(t) - 1)) ELSE t

trim(t) == trimEnd(trimStart(t))

NotSpace(seg) == ~IsSpace(seg.w)

split(text) == SelectSeq(text, NotSpace)

RECURSIVE SumN(_)
SumN(segs) == IF segs = <<>> THEN 0 ELSE Head(segs).n + SumN(Tail(segs))

LowerWord(w) == IF w = "Improved" THEN "improved" ELSE w

toLowerCase(text) == [i \in 1..Len(text) |-> [w |-> LowerWord(text[i].w), n |-> text[i].n]]

(* A regular expression is the set of its alternatives; it matches a text *)
(* that holds one of them.                                                 *)
test(re, text) == \E i \in 1..Len(text) : text[i].w \in re

matchCount(re, text) ==
    LET Hit(seg) == seg.w \in re
    IN  SumN(SelectSeq(text, Hit))

situationRe == {"situation", "context", "when", "at the time", "project"}

taskRe == {"task", "goal", "objective", "responsible"}

actionRe ==
    {"i did", "i built", "i led", "implemented", "designed", "debugged", "created", "improved",
     "migrated", "optimized"}

resultRe ==
    {"result", "outcome", "impact", "improved", "reduced", "increased", "saved", "delivered",
     "launched"}

(* /(\d+%|\d+\s*(ms|sec|...|k|m))/i : the tokens of Vocab that are a number and a unit *)
metricRe == {"40%"}

fillerRe == {"um", "uh", "like", "you know", "basically", "kind of", "sort of"}

Max(a, b) == IF a >= b THEN a ELSE b

Min(a, b) == IF a <= b THEN a ELSE b

(* Math.round of the rational num/den, den > 0: halves go up *)
MathRound(num, den) == (2 * num + den) \div (2 * den)

Append2(s, cond, e) == IF cond THEN Append(s, e) ELSE s

BreakdownOrder ==
    <<"StructureSTAR", "OwnershipAndAction", "ResultsAndImpact", "MetricsSpecificity",
      "ClarityAndConciseness">>

RECURSIVE SumValues(_, _)
SumValues(obj, keys) ==
    IF keys = <<>> THEN 0 ELSE obj[Head(keys)] + SumValues(obj, Tail(keys))

clampScore_noCeiling(raw) == Max(18, MathRound(raw, 1))

clampScore(raw) == Max(18, Min(94, MathRound(raw, 1)))

explain_swapped(rubricBreakdown) ==
    <<[dim |-> "STAR structure", value |-> rubricBreakdown.StructureSTAR, cap |-> 20],
      [dim |-> "ownership/actions", value |-> rubricBreakdown.ResultsAndImpact, cap |-> 22],
      [dim |-> "outcomes", value |-> rubricBreakdown.OwnershipAndAction, cap |-> 22],
      [dim |-> "metrics", value |-> rubricBreakdown.MetricsSpecificity, cap |-> 18],
      [dim |-> "clarity", value |-> rubricBreakdown.ClarityAndConciseness, cap |-> 20]>>

explain(rubricBreakdown) ==
    <<[dim |-> "STAR structure", value |-> rubricBreakdown.StructureSTAR, cap |-> 20],
      [dim |-> "ownership/actions", value |-> rubricBreakdown.OwnershipAndAction, cap |-> 22],
      [dim |-> "outcomes", value |-> rubricBreakdown.ResultsAndImpact, cap |-> 22],
      [dim |-> "metrics", value |-> rubricBreakdown.MetricsSpecificity, cap |-> 18],
      [dim |-> "clarity", value |-> rubricBreakdown.ClarityAndConciseness, cap |-> 20]>>

feedbackFor(score) ==
    IF score >= 75 THEN "strong" ELSE IF score < 50 THEN "needsStructure" ELSE "baseline"

(* The detectors of evaluateTranscript, the same in both servers *)
detect(t) ==
    LET text == trim(t)
        words == split(text)
        lower == toLowerCase(text)
    IN  [wordCount |-> SumN(words),
         hasSituation |-> test(situationRe, lower),
         hasTask |-> test(taskRe, lower),
         hasAction |-> test(actionRe, lower),
         hasResult |-> test(resultRe, lower),
         hasMetric |-> test(metricRe, text),
         fillerCount |-> matchCount(fillerRe, lower)]

rubric_noShortPenalty(d) ==
    LET clarity0 == Max(6, 20 - Min(10, d.fillerCount * 2))
        clarity2 == IF d.wordCount > 260 THEN clarity0 - 4 ELSE clarity0
    IN  [StructureSTAR |-> (IF d.hasSituation THEN 12 ELSE 4) + (IF d.hasTask THEN 8 ELSE 2),
         OwnershipAndAction |-> IF d.hasAction THEN 22 ELSE 8,
         ResultsAndImpact |-> IF d.hasResult THEN 22 ELSE 8,
         MetricsSpecificity |-> IF d.hasMetric THEN 18 ELSE 4,
         ClarityAndConciseness |-> clarity2]

rubric(d) ==
    LET clarity0 == Max(6, 20 - Min(10, d.fillerCount * 2))
        clarity1 == IF d.wordCount < 35 THEN clarity0 - 6 ELSE clarity0
        clarity2 == IF d.wordCount > 260 THEN clarity1 - 4 ELSE clarity1
    IN  [StructureSTAR |-> (IF d.hasSituation THEN 12 ELSE 4) + (IF d.hasTask THEN 8 ELSE 2),
         OwnershipAndAction |-> IF d.hasAction THEN 22 ELSE 8,
         ResultsAndImpact |-> IF d.hasResult THEN 22 ELSE 8,
         MetricsSpecificity |-> IF d.hasMetric THEN 18 ELSE 4,
         ClarityAndConciseness |-> clarity2]

tips_noLength(d) ==
    LET tips1 == Append2(<<>>, ~d.hasSituation \/ ~d.hasTask, "situationTask")
        tips2 == Append2(tips1, ~d.hasAction, "action")
        tips3 == Append2(tips2, ~d.hasResult, "result")
        tips4 == Append2(tips3, ~d.hasMetric, "metric")
        tips6 == Append2(tips4, d.fillerCount > 3, "filler")
    IN  Append2(tips6, Len(tips6) = 0, "noneNeeded")

tips(d) ==
    LET tips1 == Append2(<<>>, ~d.hasSituation \/ ~d.hasTask, "situationTask")
        tips2 == Append2(tips1, ~d.hasAction, "action")
        tips3 == Append2(tips2, ~d.hasResult, "result")
        tips4 == Append2(tips3, ~d.hasMetric, "metric")
        tips5 == Append2(tips4, d.wordCount < 50, "length")
        tips6 == Append2(tips5, d.fillerCount > 3, "filler")
    IN  Append2(tips6, Len(tips6) = 0, "noneNeeded")

(* the words that str.match(re) returns, in the order of the text; the i flag *)
(* ignores case and the match keeps the spelling of the text                 *)
matchedWords(re, text) ==
    LET Hit(seg) == LowerWord(seg.w) \in re
        found == SelectSeq(text, Hit)
    IN  [i \in 1..Len(found) |-> found[i].w]

(* \b\d+(\.\d+)?\s?(%|ms|...)\b needs a word character right behind the unit %,  *)
(* the ownership phrases need the word "i": no token of Vocab matches either *)
highlightMetricRe == {}

highlightOwnershipRe == {}

highlightOutcomeRe ==
    {"result", "outcome", "impact", "increased", "reduced", "saved", "launched", "delivered",
     "improved"}

vagueRe == {"stuff", "things", "somehow", "maybe", "probably", "etc"}

(* [...new Set(xs)]: the first occurrence of each element, in order *)
RECURSIVE dedupe(_)
dedupe(xs) ==
    IF xs = <<>> THEN <<>>
    ELSE LET rest == dedupe(SubSeq(xs, 1, Len(xs) - 1))
             x == xs[Len(xs)]
         IN  IF \E i \in 1..Len(rest) : rest[i] = x THEN rest ELSE Append(rest, x)

slice(s, from, to) == SubSeq(s, from + 1, Min(to, Len(s)))

extractHighlights(t) ==
    LET metricMatch == matchedWords(highlightMetricRe, t)
        ownershipMatch == matchedWords(highlightOwnershipRe, t)
        outcomeMatch == matchedWords(highlightOutcomeRe, t)
        fillerMatch == matchedWords(fillerRe, t)
        vagueMatch == matchedWords(vagueRe, t)
        Times(re) == LET Hit(seg) == LowerWord(seg.w) \in re IN SumN(SelectSeq(t, Hit))
    IN  [strongPatterns |-> slice(dedupe(metricMatch \o ownershipMatch \o outcomeMatch), 0, 10),
         weakPatterns |-> slice(dedupe(fillerMatch \o vagueMatch), 0, 10),
         metricsCount |-> Times(highlightMetricRe),
         ownershipCount |-> Times(highlightOwnershipRe),
         fillerCount |-> Times(fillerRe)]

evaluateTranscript(t) ==
    LET d == detect(t)
        rubricBreakdown == rubric(d)
        score == clampScore(SumValues(rubricBreakdown, BreakdownOrder))
    IN  [score |-> score,
         feedback |-> feedbackFor(score),
         improvementTips |-> tips(d),
         rubricBreakdown |-> rubricBreakdown,
         scoreExplanation |-> explain(rubricBreakdown),
         highlights |-> extractHighlights(trim(t))]

(* src/server.js: the older evaluator, a running score without a breakdown *)
server_score(d) ==
    LET s1 == 20 + (IF d.wordCount >= 30 THEN 10 ELSE 0) + (IF d.wordCount >= 70 THEN 10 ELSE 0)
                 + (IF d.wordCount >= 120 THEN 8 ELSE 0) + (IF d.wordCount >= 220 THEN 6 ELSE 0)
        s2 == s1 + (IF d.hasSituation THEN 8 ELSE 0) + (IF d.hasTask THEN 8 ELSE 0)
                 + (IF d.hasAction THEN 12 ELSE 0) + (IF d.hasResult THEN 14 ELSE 0)
                 + (IF d.hasMetric THEN 12 ELSE 0)
        s3 == s2 - Min(12, d.fillerCount * 2)
        s4 == s3 - (IF d.wordCount < 20 THEN 18 ELSE 0) - (IF ~d.hasAction THEN 12 ELSE 0)
                 - (IF ~d.hasResult THEN 10 ELSE 0)
    IN  Max(18, Min(92, s4))

server_tips(d) ==
    LET tips1 == Append2(<<>>, ~d.hasSituation \/ ~d.hasTask, "situationTask")
        tips2 == Append2(tips1, ~d.hasAction, "action")
        tips3 == Append2(tips2, ~d.hasResult, "result")
        tips4 == Append2(tips3, ~d.hasMetric, "metric")
        tips5 == Append2(tips4, d.wordCount < 50, "length")
    IN  Append2(tips5, Len(tips5) = 0, "noneNeeded")

server_evaluateTranscript(t) ==
    LET d == detect(t)
        score == server_score(d)
    IN  [score |-> score,
         feedback |-> feedbackFor(score),
         improvementTips |-> server_tips(d)]

(***************************************************************************)
(* The evaluator on its own: a transcript is drawn, the deployed build's   *)
(* evaluateTranscript is applied to it.                                    *)
(***************************************************************************)
InitEval ==
    /\ build \in Builds
    /\ transcript = <<>>
    /\ evaluation = <<>>
    /\ hasApiKey = FALSE
    /\ analyzeBody = <<>>
    /\ qaPairs = <<>>
    /\ scorerReply = <<>>
    /\ response = <<>>
    /\ genRequest = <<>>
    /\ modelReplies = <<>>
    /\ SessionIdle
    /\ AccountIdle

TypeWords ==
    /\ evaluation = <<>>
    /\ Len(transcript) < MaxSeg
    /\ \E seg \in Segments :
          /\ transcript # <<>> => IndexOf(transcript[Len(transcript)].w) < IndexOf(seg.w)
          /\ transcript' = Append(transcript, seg)
    /\ UNCHANGED <<build, hasApiKey, response, evaluation, analyzeVars, generateVars,
                   sessionVars, accountVars>>

Evaluate ==
    /\ build = "app"
    /\ evaluation = <<>>
    /\ evaluation' = <<evaluateTranscript(transcript)>>
    /\ UNCHANGED <<build, hasApiKey, response, transcript, analyzeVars, generateVars,
                   sessionVars, accountVars>>

server_Evaluate ==
    /\ build = "server"
    /\ evaluation = <<>>
    /\ evaluation' = <<server_evaluateTranscript(transcript)>>
    /\ UNCHANGED <<build, hasApiKey, response, transcript, analyzeVars, generateVars,
                   sessionVars, accountVars>>

NextEval == TypeWords \/ Evaluate \/ server_Evaluate

SpecEval == InitEval /\ [][NextEval]_vars

(***************************************************************************)
(* Properties of the evaluator                                             *)
(***************************************************************************)
Evaluated == evaluation # <<>>

EmptyAfterTrim == trim(transcript) = <<>>

Has(s, e) == \E i \in 1..Len(s) : s[i] = e

RECURSIVE SumExplained(_)
SumExplained(parts) ==
    IF parts = <<>> THEN 0 ELSE Head(parts).value + SumExplained(Tail(parts))

(* C1: evaluateTranscript returns, for every transcript, an integer score with *)
(* 18 <= score <= 94                                                           *)
C1_ScoreInRange == Evaluated => evaluation[1].score \in 18..94

C1_ClampedAt94 ==
    /\ Evaluated
    /\ build = "app"
    /\ evaluation[1].score = 94
    /\ SumExplained(evaluation[1].scoreExplanation) > 94

(* C6 as stated: the rubric evaluator scores a transcript that is empty after *)
(* trimming 18, the minimum of the range                                      *)
C6_EmptyScores18 ==
    (Evaluated /\ build = "app" /\ EmptyAfterTrim) => evaluation[1].score = 18

(* C6, amended: the rubric evaluator scores a transcript that is empty after  *)
(* trimming 40, the sum 6 + 8 + 8 + 4 + 14 of its dimensions; only the older  *)
(* evaluator of server.js scores it 18                                        *)
C6_EmptyScores40 ==
    (Evaluated /\ EmptyAfterTrim) =>
        evaluation[1].score = IF build = "app" THEN 40 ELSE 18

C6_WhitespaceOnlyEvaluated ==
    /\ Evaluated
    /\ build = "app"
    /\ transcript # <<>>
    /\ EmptyAfterTrim
    /\ evaluation[1].score = 40

(* C7 as stated: for the empty transcript improvementTips holds all six issue *)
(* tips (situation/task, action, result, metric, answer length, filler words) *)
(* and not the positive message                                               *)
C7_AllSixTips ==
    (Evaluated /\ build = "app" /\ transcript = <<>>) =>
        /\ \A tip \in {"situationTask", "action", "result", "metric", "length", "filler"} :
              Has(evaluation[1].improvementTips, tip)
        /\ ~Has(evaluation[1].improvementTips, "noneNeeded")

(* C7, amended: for the empty transcript improvementTips is exactly the five  *)
(* tips situation/task, action, result, metric and answer length, in that     *)
(* order: the filler-words tip is absent (the text has no filler word) and so *)
(* is the positive message                                                    *)
C7_FiveTips ==
    (Evaluated /\ transcript = <<>>) =>
        evaluation[1].improvementTips
            = <<"situationTask", "action", "result", "metric", "length">>

C7_EmptyEvaluated ==
    /\ Evaluated
    /\ build = "app"
    /\ transcript = <<>>
    /\ Len(evaluation[1].improvementTips) = 5

(* C10: the five values in scoreExplanation are the rubricBreakdown values,   *)
(* dimension by dimension, their sum is the raw score of the transcript, and  *)
(* the returned score is that sum clamped to 18..94                           *)
C10_ExplanationSumsToScore ==
    (Evaluated /\ build = "app") =>
        LET e == evaluation[1]
        IN  /\ Len(e.scoreExplanation) = Len(BreakdownOrder)
            /\ \A i \in 1..Len(BreakdownOrder) :
                  e.scoreExplanation[i].value = e.rubricBreakdown[BreakdownOrder[i]]
            /\ SumExplained(e.scoreExplanation)
                  = SumValues(rubric(detect(transcript)), BreakdownOrder)
            /\ e.score = Max(18, Min(94, SumExplained(e.scoreExplanation)))

C10_PenalisedClarityExplained ==
    /\ Evaluated
    /\ build = "app"
    /\ evaluation[1].scoreExplanation[5].value = 4
    /\ evaluation[1].score = 30

(* C20: the penalty of 6 for fewer than 35 words and the penalty of 4 for   *)
(* more than 260 words are subtracted from the clarity value after its      *)
(* floor of 6 was applied, which is not applied again; the two never apply  *)
(* to the same transcript, and the dimension ends at 4 at the lowest        *)
C20_ClarityPenaltiesExclusive ==
    (Evaluated /\ build = "app") =>
        LET d == detect(transcript)
            floored == Max(6, 20 - Min(10, d.fillerCount * 2))
            short == d.wordCount < 35
            long == d.wordCount > 260
            clarity == evaluation[1].rubricBreakdown.ClarityAndConciseness
        IN  /\ ~(short /\ long)
            /\ clarity = floored - (IF short THEN 6 ELSE 0) - (IF long THEN 4 ELSE 0)
            /\ clarity >= 4

(* C20 as stated: both penalties may apply to the same transcript: the     *)
(* text typed so far can be continued to a transcript that gets both, its   *)
(* clarity value 10 below the floored value                                 *)
C20_BothPenaltiesApply ==
    \E more \in [1..2 -> Segments] :
        LET t == transcript \o more
            d == detect(t)
            floored == Max(6, 20 - Min(10, d.fillerCount * 2))
        IN  /\ d.wordCount < 35
            /\ d.wordCount > 260
            /\ evaluateTranscript(t).rubricBreakdown.ClarityAndConciseness = floored - 6 - 4

(* a short answer with five filler words or more was evaluated: its clarity *)
(* value is below the floor of 6                                            *)
C20_ShortAnswerBelowFloor ==
    /\ Evaluated
    /\ build = "app"
    /\ detect(transcript).wordCount < 35
    /\ detect(transcript).fillerCount >= 5
    /\ evaluation[1].rubricBreakdown.ClarityAndConciseness < 6

(***************************************************************************)
(* POST /api/analyze-interview.  qaPairs is the submitted answer list; the *)
(* external scorer's reply is drawn when the handler calls it.             *)
(***************************************************************************)
MaxAnswers == 3

MaxResults == 2

Categories == {"Behavioral", "Technical", "Situational", "Motivational"}

QuestionBank ==
    {[category |-> "Behavioral", question |-> "conflict"],
     [category |-> "Behavioral", question |-> "learn quickly"],
     [category |-> "Technical", question |-> "hard problem"],
     [category |-> "Situational", question |-> "priorities changed"],
     [category |-> "Motivational", question |-> "why this role"]}

EmptyAnswer == <<>>

ResultOnlyAnswer == <<[w |-> "reduced", n |-> 40]>>

LongStrongAnswer ==
    <<[w |-> "goal", n |-> 1], [w |-> "Improved", n |-> 300], [w |-> "40%", n |-> 1]>>

AnswerTexts == {EmptyAnswer, ResultOnlyAnswer, LongStrongAnswer}

Answers ==
    {[category |-> q.category, question |-> q.question, transcript |-> t] :
        q \in QuestionBank, t \in AnswerTexts}

(* With a key the handler only forwards qaPairs to the scorer: their number matters *)
ForwardedAnswers ==
    {[category |-> "Behavioral", question |-> "conflict", transcript |-> ResultOnlyAnswer]}

(* JSON values of the scorer's reply.  An optional field is <<>> when absent *)
JsUndefined == [t |-> "undefined", v |-> 0]

JsString == [t |-> "string", v |-> 0]

JsNumber(n) == [t |-> "number", v |-> n]

ExternalScores == {JsUndefined, JsString, JsNumber(0), JsNumber(50), JsNumber(100)}

ReplyItems ==
    [category : {"Technical"},
     question : {"hard problem"},
     transcript : {<<>>, <<LongStrongAnswer>>},
     score : ExternalScores,
     feedback : {<<>>, <<"">>, <<"external feedback">>},
     improvementTips : {<<>>, <<"external tip">>}]

SeqsUpTo(S, n) == UNION {[1..k -> S] : k \in 0..n}

(* longer replies of plain items: categories and scores vary, nothing else does *)
MaxRanked == 4

RankedItems ==
    [category : {"Behavioral", "Technical", "Situational"},
     question : {"hard problem"},
     transcript : {<<>>},
     score : {JsNumber(0), JsNumber(100)},
     feedback : {<<"external feedback">>},
     improvementTips : {<<"external tip">>}]

Replies ==
    {[kind |-> "throws", results |-> <<>>], [kind |-> "noResults", results |-> <<>>]}
    \cup {[kind |-> "json", results |-> r] : r \in SeqsUpTo(ReplyItems, MaxResults)}
    \cup {[kind |-> "json", results |-> r] : r \in [1..MaxRanked -> RankedItems]}

(* Number(x) || 0 *)
numberOrZero(x) == IF x.t = "number" THEN x.v ELSE 0

(* x || fallback, for an optional transcript *)
orElse(x, fallback) == IF x = <<>> THEN fallback ELSE x[1]

(* x || fallback, for an optional string: the empty string is falsy too *)
textOrElse(x, fallback) == IF x = <<>> THEN fallback ELSE IF x[1] = "" THEN fallback ELSE x[1]

RECURSIVE sumScores(_)
sumScores(rows) == IF rows = <<>> THEN 0 ELSE Head(rows).score + sumScores(Tail(rows))

RECURSIVE insertByScore(_, _)
insertByScore(sorted, item) ==
    IF sorted = <<>> THEN <<item>>
    ELSE IF item.score - Head(sorted).score < 0 THEN <<item>> \o sorted
    ELSE <<Head(sorted)>> \o insertByScore(Tail(sorted), item)

(* Array.prototype.sort((a, b) => a.score - b.score): ascending and stable *)
RECURSIVE sortByScore(_)
sortByScore(rows) ==
    IF rows = <<>> THEN <<>>
    ELSE insertByScore(sortByScore(SubSeq(rows, 1, Len(rows) - 1)), rows[Len(rows)])

makeNextStepPlan_twoLowest(results) ==
    LET lowest == slice(sortByScore(results), 0, 2)
        weak == [i \in 1..Len(lowest) |-> lowest[i].category]
    IN  IF Len(weak) = 0 THEN [kind |-> "keepPracticing", drills |-> <<>>]
        ELSE [kind |-> "focusedDrills", drills |-> dedupe(weak)]

makeNextStepPlan(results) ==
    LET lowest == slice(sortByScore(results), 0, 3)
        weak == [i \in 1..Len(lowest) |-> lowest[i].category]
    IN  IF Len(weak) = 0 THEN [kind |-> "keepPracticing", drills |-> <<>>]
        ELSE [kind |-> "focusedDrills", drills |-> dedupe(weak)]

fallbackResult_swapped(qa) ==
    LET evaluated == evaluateTranscript(qa.transcript)
    IN  [category |-> qa.category,
         question |-> qa.category,
         transcript |-> qa.transcript,
         score |-> evaluated.score,
         feedback |-> evaluated.feedback,
         improvementTips |-> evaluated.improvementTips,
         rubricBreakdown |-> evaluated.rubricBreakdown,
         scoreExplanation |-> evaluated.scoreExplanation,
         highlights |-> evaluated.highlights]

fallbackResult(qa) ==
    LET evaluated == evaluateTranscript(qa.transcript)
    IN  [category |-> qa.category,
         question |-> qa.question,
         transcript |-> qa.transcript,
         score |-> evaluated.score,
         feedback |-> evaluated.feedback,
         improvementTips |-> evaluated.improvementTips,
         rubricBreakdown |-> evaluated.rubricBreakdown,
         scoreExplanation |-> evaluated.scoreExplanation,
         highlights |-> evaluated.highlights]

fallbackReport(pairs) ==
    LET results == [i \in 1..Len(pairs) |-> fallbackResult(pairs[i])]
        overallScore == MathRound(sumScores(results), Len(results))
    IN  [overallScore |-> overallScore,
         overallFeedback |-> IF overallScore >= 75 THEN "solid" ELSE "needsStructure",
         nextStepPlan |-> makeNextStepPlan(results),
         results |-> results,
         source |-> "fallback"]

blend(modelScore, localScore) ==
    Max(18, Min(94, MathRound(modelScore * 55 + localScore * 45, 100)))

calibrate(item) ==
    LET local == evaluateTranscript(orElse(item.transcript, EmptyAnswer))
        modelScore == numberOrZero(item.score)
    IN  [category |-> item.category,
         question |-> item.question,
         transcript |-> item.transcript,
         feedback |-> textOrElse(item.feedback, local.feedback),
         score |-> blend(modelScore, local.score),
         improvementTips |->
             IF Len(item.improvementTips) > 0 THEN item.improvementTips
             ELSE local.improvementTips,
         rubricBreakdown |-> local.rubricBreakdown,
         scoreExplanation |-> local.scoreExplanation,
         highlights |-> local.highlights]

meanScore_truncated(rows) == IF Len(rows) # 0 THEN sumScores(rows) \div Len(rows) ELSE 0

meanScore(rows) == IF Len(rows) # 0 THEN MathRound(sumScores(rows), Len(rows)) ELSE 0

calibratedReport(parsed) ==
    LET calibratedResults == [i \in 1..Len(parsed.results) |-> calibrate(parsed.results[i])]
    IN  [overallScore |-> meanScore(calibratedResults),
         overallFeedback |-> "external",
         nextStepPlan |-> makeNextStepPlan(calibratedResults),
         results |-> calibratedResults,
         source |-> "openai"]

(* what req.body holds beside the answers; qaPairs says what kind of value *)
(* req.body.qaPairs is                                                     *)
AnalyzeBodies ==
    [resume : BOOLEAN, jobDescription : BOOLEAN, qaPairs : {"array", "absent", "notArray"}]

CompleteBody == [resume |-> TRUE, jobDescription |-> TRUE, qaPairs |-> "array"]

missingInterviewData_resumeUnchecked ==
    \/ ~analyzeBody[1].jobDescription
    \/ analyzeBody[1].qaPairs # "array"
    \/ Len(qaPairs) = 0

(* !resume || !jobDescription || !Array.isArray(qaPairs) || qaPairs.length === 0 *)
missingInterviewData ==
    \/ ~analyzeBody[1].resume
    \/ ~analyzeBody[1].jobDescription
    \/ analyzeBody[1].qaPairs # "array"
    \/ Len(qaPairs) = 0

Ok(body) == [status |-> 200, body |-> body]

Failed(status) == [status |-> status, body |-> [source |-> "error"]]

AnalyzeInterview ==
    /\ build = "app"
    /\ analyzeBody # <<>>
    /\ response = <<>>
    /\ IF missingInterviewData THEN response' = <<Failed(400)>> /\ UNCHANGED scorerReply
       ELSE IF ~hasApiKey
       THEN response' = <<Ok(fallbackReport(qaPairs))>> /\ UNCHANGED scorerReply
       ELSE \E reply \in Replies :
               /\ scorerReply' = <<reply>>
               /\ response' = IF reply.kind = "throws" THEN <<Failed(500)>>
                              ELSE <<Ok(calibratedReport(reply))>>
    /\ UNCHANGED <<build, hasApiKey, analyzeBody, qaPairs, evalVars, generateVars,
                   sessionVars, accountVars>>

(* src/server.js: the older handler *)
server_fallbackResult(qa) ==
    LET evaluated == server_evaluateTranscript(qa.transcript)
    IN  [category |-> qa.category,
         question |-> qa.question,
         transcript |-> qa.transcript,
         score |-> evaluated.score,
         feedback |-> evaluated.feedback,
         improvementTips |-> evaluated.improvementTips]

server_fallbackReport(pairs) ==
    LET results == [i \in 1..Len(pairs) |-> server_fallbackResult(pairs[i])]
        overallScore == MathRound(sumScores(results), Len(results))
    IN  [overallScore |-> overallScore,
         overallFeedback |-> IF overallScore >= 75 THEN "solid" ELSE "needsStructure",
         results |-> results,
         source |-> "fallback"]

server_blend(modelScore, localScore) ==
    Max(20, Min(95, MathRound(modelScore * 60 + localScore * 40, 100)))

(* {...item, score, improvementTips}: a field the item lacks, the result lacks *)
server_calibrate(item) ==
    LET local == server_evaluateTranscript(orElse(item.transcript, EmptyAnswer))
        modelScore == numberOrZero(item.score)
        improvementTips ==
            IF Len(item.improvementTips) > 0 THEN item.improvementTips
            ELSE local.improvementTips
    IN  IF item.feedback = <<>>
        THEN [category |-> item.category,
              question |-> item.question,
              transcript |-> item.transcript,
              score |-> server_blend(modelScore, local.score),
              improvementTips |-> improvementTips]
        ELSE [category |-> item.category,
              question |-> item.question,
              transcript |-> item.transcript,
              feedback |-> item.feedback[1],
              score |-> server_blend(modelScore, local.score),
              improvementTips |-> improvementTips]

server_calibratedReport(parsed) ==
    LET calibratedResults ==
            [i \in 1..Len(parsed.results) |-> server_calibrate(parsed.results[i])]
    IN  [overallScore |->
             IF Len(calibratedResults) > 0
             THEN MathRound(sumScores(calibratedResults), Len(calibratedResults))
             ELSE 0,
         overallFeedback |-> "external",
         results |-> calibratedResults,
         source |-> "openai"]

server_AnalyzeInterview ==
    /\ build = "server"
    /\ analyzeBody # <<>>
    /\ response = <<>>
    /\ IF missingInterviewData THEN response' = <<Failed(400)>> /\ UNCHANGED scorerReply
       ELSE IF ~hasApiKey
       THEN response' = <<Ok(server_fallbackReport(qaPairs))>> /\ UNCHANGED scorerReply
       ELSE \E reply \in Replies :
               /\ scorerReply' = <<reply>>
               /\ response' = IF reply.kind = "throws" THEN <<Failed(500)>>
                              ELSE <<Ok(server_calibratedReport(reply))>>
    /\ UNCHANGED <<build, hasApiKey, analyzeBody, qaPairs, evalVars, generateVars,
                   sessionVars, accountVars>>

InitAnalyze ==
    /\ build \in Builds
    /\ hasApiKey \in BOOLEAN
    /\ analyzeBody = <<CompleteBody>>
    /\ qaPairs = <<>>
    /\ scorerReply = <<>>
    /\ response = <<>>
    /\ genRequest = <<>>
    /\ modelReplies = <<>>
    /\ transcript = <<>>
    /\ evaluation = <<>>
    /\ SessionIdle
    /\ AccountIdle

(* the client puts one more answer into the request body *)
SubmitAnswer ==
    /\ analyzeBody # <<>>
    /\ analyzeBody[1].qaPairs = "array"
    /\ response = <<>>
    /\ Len(qaPairs) < MaxAnswers
    /\ \E qa \in IF hasApiKey THEN ForwardedAnswers ELSE Answers :
          qaPairs' = Append(qaPairs, qa)
    /\ UNCHANGED <<build, hasApiKey, analyzeBody, scorerReply, response, evalVars, generateVars,
                   sessionVars, accountVars>>

NextAnalyze == SubmitAnswer \/ AnalyzeInterview \/ server_AnalyzeInterview

SpecAnalyze == InitAnalyze /\ [][NextAnalyze]_vars

(***************************************************************************)
(* Properties of analyze-interview                                         *)
(***************************************************************************)
Responded == response # <<>>

Reported == Responded /\ response[1].status = 200

localScore(text) ==
    IF build = "app" THEN evaluateTranscript(text).score
    ELSE server_evaluateTranscript(text).score

(* C2: for every item of the scorer's reply the calibrated score is          *)
(* clamp(round(externalScore * 0.55 + localScore * 0.45), 18, 94), with      *)
(* externalScore 0 when absent or not a number                               *)
C2_CalibratedScore ==
    (Reported /\ response[1].body.source = "openai") =>
        LET items == scorerReply[1].results
            rows == response[1].body.results
        IN  /\ Len(rows) = Len(items)
            /\ \A i \in 1..Len(items) :
                  LET externalScore ==
                          IF items[i].score.t = "number" THEN items[i].score.v ELSE 0
                      text ==
                          IF items[i].transcript = <<>> THEN <<>> ELSE items[i].transcript[1]
                      weighted == externalScore * 55 + localScore(text) * 45
                      rounded ==
                          CHOOSE k \in -1..200 :
                              100 * k <= weighted + 50 /\ weighted + 50 < 100 * (k + 1)
                  IN  rows[i].score = Max(18, Min(94, rounded))

(* C4: overallScore is the rounded mean of the scores in results, 0 when     *)
(* results is empty, and lies in 0..100                                      *)
C4_OverallScoreIsRoundedMean ==
    Reported =>
        LET rows == response[1].body.results
            n == Len(rows)
            total == sumScores(rows)
            overall == response[1].body.overallScore
        IN  /\ overall \in 0..100
            /\ n = 0 => overall = 0
            /\ n > 0 =>
                  /\ 2 * n * overall <= 2 * total + n
                  /\ 2 * total + n < 2 * n * (overall + 1)

C4_HalfRoundedUp ==
    /\ Reported
    /\ build = "app"
    /\ response[1].body.source = "openai"
    /\ Len(response[1].body.results) = 2
    /\ sumScores(response[1].body.results) = 2 * response[1].body.overallScore - 1

(* C5: without an external scorer, analyze-interview on n >= 1 answers       *)
(* returns a report with exactly n results in submission order, result i     *)
(* with the category, question and transcript of answer i, the local         *)
(* evaluator's score and at least one improvement tip                        *)
C5_FallbackReportComplete ==
    (Responded /\ ~hasApiKey /\ Len(qaPairs) >= 1) =>
        /\ response[1].status = 200
        /\ LET rows == response[1].body.results
           IN  /\ Len(rows) = Len(qaPairs)
               /\ \A i \in 1..Len(qaPairs) :
                     /\ rows[i].category = qaPairs[i].category
                     /\ rows[i].question = qaPairs[i].question
                     /\ rows[i].transcript = qaPairs[i].transcript
                     /\ rows[i].score = localScore(qaPairs[i].transcript)
                     /\ Len(rows[i].improvementTips) >= 1

C5_ThreeAnswersReported ==
    /\ Reported
    /\ build = "app"
    /\ ~hasApiKey
    /\ Len(response[1].body.results) = 3
    /\ qaPairs[1].question # qaPairs[2].question
    /\ qaPairs[2].transcript # qaPairs[3].transcript

ScoresAndCategories(rows) == [i \in 1..Len(rows) |-> <<rows[i].score, rows[i].category>>]

C8_Scenario ==
    /\ Reported
    /\ build = "app"
    /\ ScoresAndCategories(response[1].body.results)
         = <<<<90, "Technical">>, <<40, "Behavioral">>, <<60, "Situational">>>>

(* C8 as stated: for the results [90 Technical, 40 Behavioral, 60            *)
(* Situational] the plan names Behavioral, then Situational, and not         *)
(* Technical                                                                 *)
C8_PlanOmitsTechnical ==
    C8_Scenario => response[1].body.nextStepPlan.drills = <<"Behavioral", "Situational">>

(* C8, amended: for the results [90 Technical, 40 Behavioral, 60             *)
(* Situational] the plan names Behavioral first, then Situational, then      *)
(* Technical: the three lowest of three results are all of them              *)
C8_PlanNamesAllThree ==
    C8_Scenario =>
        response[1].body.nextStepPlan.drills = <<"Behavioral", "Situational", "Technical">>

C8_ScenarioPlanned ==
    /\ C8_Scenario
    /\ response[1].body.nextStepPlan.kind = "focusedDrills"
    /\ Len(response[1].body.nextStepPlan.drills) = 3

(* the number of results that the ascending, stable order puts before result i *)
rank(rows, i) ==
    Cardinality({j \in 1..Len(rows) :
                    \/ rows[j].score < rows[i].score
                    \/ rows[j].score = rows[i].score /\ j < i})

(* the categories of the (up to) three lowest results, lowest first *)
weakest(rows) ==
    [k \in 1..Min(3, Len(rows)) |->
        rows[CHOOSE i \in 1..Len(rows) : rank(rows, i) = k - 1].category]

(* xs without the elements that occurred before *)
firstOccurrences(xs) ==
    LET keep == {k \in 1..Len(xs) : \A h \in 1..(k - 1) : xs[h] # xs[k]}
    IN  [m \in 1..Cardinality(keep) |->
            xs[CHOOSE k \in keep : Cardinality({h \in keep : h < k}) = m - 1]]

(* C22: for a non-empty result set the plan names exactly the distinct       *)
(* categories of the (up to) three lowest-scoring results, ascending by      *)
(* score, ties in submission order, each category once at its first          *)
(* occurrence; for an empty result set it is the keep-practicing message     *)
C22_PlanNamesWeakestCategories ==
    (Reported /\ build = "app") =>
        LET rows == response[1].body.results
            plan == response[1].body.nextStepPlan
        IN  IF Len(rows) = 0 THEN plan.kind = "keepPracticing"
            ELSE /\ plan.kind = "focusedDrills"
                 /\ plan.drills = firstOccurrences(weakest(rows))

(* four results: the best, submitted first, is left out; the other three tie *)
(* and two of them share a category                                          *)
C22_BestOfFourLeftOut ==
    /\ Reported
    /\ build = "app"
    /\ Len(response[1].body.results) = 4
    /\ ScoresAndCategories(response[1].body.results)
         = <<<<73, "Technical">>, <<18, "Behavioral">>, <<18, "Situational">>,
             <<18, "Behavioral">>>>
    /\ response[1].body.nextStepPlan.drills = <<"Behavioral", "Situational">>

ScorerFailed == scorerReply # <<>> /\ scorerReply[1].kind = "throws"

(* C11: when the external scorer is configured and its call fails (network  *)
(* error, unparseable output), analyze-interview answers with the local     *)
(* evaluator's results: a complete report with one result per submitted     *)
(* answer, scored by the local rubric                                       *)
C11_ScorerFailureFallsBack ==
    (Responded /\ hasApiKey /\ ScorerFailed) =>
        /\ response[1].status = 200
        /\ Len(response[1].body.results) = Len(qaPairs)
        /\ \A i \in 1..Len(qaPairs) :
              response[1].body.results[i].score = localScore(qaPairs[i].transcript)

(* C12: a scoring reply that is valid JSON but holds no results array ends   *)
(* the request in an error response; no report is made from it.  (The same  *)
(* is claimed of a generation reply without a questions array.)             *)
C12_InvalidReplyIsHardFailure ==
    /\ (Responded /\ scorerReply # <<>> /\ scorerReply[1].kind = "noResults") =>
          response[1].status >= 400
    /\ (Responded /\ modelReplies # <<>> /\ modelReplies[1].kind = "notArray") =>
          response[1].status >= 400

(* the scorer's reply was parsed and its items were calibrated *)
Calibrated == Reported /\ scorerReply # <<>> /\ scorerReply[1].kind = "json"

(* the deployed build's evaluateTranscript(item.transcript || '') *)
localEvaluation(item) ==
    IF build = "app" THEN evaluateTranscript(orElse(item.transcript, EmptyAnswer))
    ELSE server_evaluateTranscript(orElse(item.transcript, EmptyAnswer))

(* C21: in every calibrated result, feedback is the external feedback when   *)
(* present and non-empty and the local evaluator's otherwise;                *)
(* improvementTips is the external list when it is a non-empty array and the *)
(* local tips otherwise; rubricBreakdown, scoreExplanation and highlights    *)
(* are the local evaluator's values for that transcript                      *)
C21_ResultFieldsBySource ==
    Calibrated =>
        LET items == scorerReply[1].results
            rows == response[1].body.results
        IN  /\ Len(rows) = Len(items)
            /\ \A i \in 1..Len(items) :
                  LET item == items[i]
                      local == localEvaluation(item)
                      external == item.feedback # <<>> /\ item.feedback # <<"">>
                  IN  /\ "feedback" \in DOMAIN rows[i]
                      /\ rows[i].feedback = IF external THEN item.feedback[1] ELSE local.feedback
                      /\ rows[i].improvementTips =
                            IF Len(item.improvementTips) > 0 THEN item.improvementTips
                            ELSE local.improvementTips
                      /\ "rubricBreakdown" \in DOMAIN rows[i]
                      /\ rows[i].rubricBreakdown = local.rubricBreakdown
                      /\ "scoreExplanation" \in DOMAIN rows[i]
                      /\ rows[i].scoreExplanation = local.scoreExplanation
                      /\ "highlights" \in DOMAIN rows[i]
                      /\ rows[i].highlights = local.highlights

(* C24: with the external scorer configured, the results of the report       *)
(* correspond one to one, by position, to the submitted answers: as many     *)
(* results as qaPairs, result i for the category and question of answer i    *)
C24_OneResultPerAnswer ==
    Calibrated =>
        LET rows == response[1].body.results
        IN  /\ Len(rows) = Len(qaPairs)
            /\ \A i \in 1..Len(qaPairs) :
                  /\ rows[i].category = qaPairs[i].category
                  /\ rows[i].question = qaPairs[i].question

(* C29: in every calibrated result whose feedback is the local evaluator's   *)
(* (external feedback missing or empty), the tier of the feedback (strong    *)
(* from 75, needs-structure below 50, baseline between) is the tier of the   *)
(* calibrated score of that result                                           *)
C29_LocalFeedbackTierOfReportedScore ==
    (Calibrated /\ build = "app") =>
        LET items == scorerReply[1].results
            rows == response[1].body.results
        IN  \A i \in 1..Len(items) :
                (items[i].feedback = <<>> \/ items[i].feedback = <<"">>) =>
                    rows[i].feedback = feedbackFor(rows[i].score)

(***************************************************************************)
(* POST /api/generate-questions.  A text is a sequence of chunks: the      *)
(* words of a question written by the model, or a whole template sentence  *)
(* of the fallback generator followed by its suffix.                       *)
(***************************************************************************)
MaxCount == 2

MaxGenerated == 2

Languages == <<"English", "Dutch", "French", "Romanian", "Russian">>

normalizeLanguage(language) ==
    IF \E i \in 1..Len(Languages) : Languages[i] = language THEN language ELSE "English"

templates ==
    [English |->
        [Behavioral |-> "Tell me about a time you handled a team conflict successfully.",
         Technical |-> "Describe a technical challenge you solved and your exact approach.",
         Situational |-> "How would you respond if priorities changed right before a deadline?",
         Motivational |-> "Why are you interested in this role and this company?"],
     Dutch |->
        [Behavioral |-> "Vertel over een moment waarop je een teamconflict succesvol oploste.",
         Technical |-> "Beschrijf een technisch probleem dat je hebt opgelost en je aanpak.",
         Situational |-> "Hoe zou je reageren als prioriteiten vlak voor een deadline veranderen?",
         Motivational |-> "Waarom ben je geinteresseerd in deze rol en dit bedrijf?"],
     French |->
        [Behavioral |-> "Parlez-moi d'une situation ou vous avez resolu un conflit d'equipe.",
         Technical |-> "Decrivez un defi technique que vous avez resolu et votre approche.",
         Situational |-> "Comment reagiriez-vous si les priorites changeaient avant une echeance ?",
         Motivational |-> "Pourquoi etes-vous interesse(e) par ce poste et cette entreprise ?"],
     Romanian |->
        [Behavioral |-> "Povesteste despre o situatie in care ai rezolvat un conflict in echipa.",
         Technical |-> "Descrie o provocare tehnica pe care ai rezolvat-o si abordarea ta.",
         Situational |-> "Cum ai reactiona daca prioritatile se schimba chiar inainte de termen?",
         Motivational |-> "De ce esti interesat(a) de acest rol si de aceasta companie?"],
     Russian |->
        [Behavioral |-> "Rasskazhite o sluchae, kogda vy uspeshno razreshili konflikt v komande.",
         Technical |-> "Opishite tekhnicheskuyu zadachu, kotoruyu vy reshili, i vash podkhod.",
         Situational |-> "Kak by vy otreagirovali, esli prioritety izmenyatsya pered dedlainom?",
         Motivational |-> "Pochemu vas interesuyut eta rol i eta kompaniya?"]]

getFallbackQuestion(language, category, i) ==
    LET bank == templates[normalizeLanguage(language)]
        base == IF category \in DOMAIN bank THEN bank[category] ELSE bank.Behavioral
        english == normalizeLanguage(language) = "English"
        variants ==
            <<<<base>>,
              <<base, IF english THEN "Please include specific actions and outcomes." ELSE "">>,
              <<base, IF english THEN "Use a clear STAR structure." ELSE "">>>>
    IN  variants[(i % Len(variants)) + 1]

(* Object.entries(categories): the requested categories in the order of the sliders *)
KeyOrder == <<"Behavioral", "Technical", "Situational", "Motivational", "Leadership">>

entries(categories) ==
    LET Requested(key) == key \in DOMAIN categories
        keys == SelectSeq(KeyOrder, Requested)
    IN  [i \in 1..Len(keys) |-> [category |-> keys[i], count |-> categories[keys[i]]]]

wanted_plusOne(count) == Max(0, count) + 1

(* Math.max(0, Number(count) || 0) *)
wanted(count) == Max(0, count)

RECURSIVE generateFallbackQuestionsFrom(_, _)
generateFallbackQuestionsFrom(ents, language) ==
    IF ents = <<>> THEN <<>>
    ELSE LET e == Head(ents)
         IN  [i \in 1..wanted(e.count) |->
                 [category |-> e.category,
                  question |-> getFallbackQuestion(language, e.category, i - 1)]]
             \o generateFallbackQuestionsFrom(Tail(ents), language)

generateFallbackQuestions(categories, language) ==
    generateFallbackQuestionsFrom(entries(categories), language)

(* the fixed question bank of src/server.js and src/unnamed/part_000 *)
bank ==
    [Behavioral |->
        <<"Tell me about a time you resolved a conflict within your team.",
          "Describe a situation where you had to learn something quickly to deliver a project.",
          "Share an example of a difficult decision you made at work and how you handled it.">>,
     Technical |->
        <<"Walk me through a technically challenging problem you solved and your approach.",
          "How would you design a scalable solution for a feature with growing usage?",
          "Explain how you ensure code quality in your day-to-day development process.">>,
     Situational |->
        <<"If priorities changed suddenly right before a deadline, how would you respond?",
          "How would you handle unclear requirements from multiple stakeholders?",
          "What would you do if production failed shortly after your deployment?">>,
     Motivational |->
        <<"Why are you interested in this role and this company?",
          "What motivates you to perform at your best in a team environment?",
          "Where do you want your career to grow over the next 2-3 years?">>]

server_bankQuestion(category, i) ==
    LET list ==
            IF category \in DOMAIN bank THEN bank[category]
            ELSE <<"Give an example response for a ${category} interview question.">>
    IN  <<list[(i % Len(list)) + 1]>>

RECURSIVE server_generateFallbackQuestionsFrom(_)
server_generateFallbackQuestionsFrom(ents) ==
    IF ents = <<>> THEN <<>>
    ELSE LET e == Head(ents)
         IN  [i \in 1..wanted(e.count) |->
                 [category |-> e.category, question |-> server_bankQuestion(e.category, i - 1)]]
             \o server_generateFallbackQuestionsFrom(Tail(ents))

server_generateFallbackQuestions(categories) ==
    server_generateFallbackQuestionsFrom(entries(categories))

(* A language signal is a run of words between two spaces; ' intr-' needs *)
(* no space after it.                                                      *)
Signal(words) == [words |-> words, closed |-> TRUE]

languageSignals ==
    [English |->
        {Signal(<<"the">>), Signal(<<"and">>), Signal(<<"with">>), Signal(<<"your">>),
         Signal(<<"about">>), Signal(<<"tell", "me">>)},
     Dutch |->
        {Signal(<<"de">>), Signal(<<"het">>), Signal(<<"een">>), Signal(<<"je">>),
         Signal(<<"jouw">>), Signal(<<"wat">>), Signal(<<"waarom">>)},
     French |->
        {Signal(<<"le">>), Signal(<<"la">>), Signal(<<"les">>), Signal(<<"des">>),
         Signal(<<"avec">>), Signal(<<"pourquoi">>), Signal(<<"vous">>)},
     Romanian |->
        {Signal(<<"si">>), Signal(<<"este">>), Signal(<<"care">>), Signal(<<"pentru">>),
         Signal(<<"cum">>), Signal(<<"de", "ce">>), [words |-> <<"intr-">>, closed |-> FALSE]},
     Russian |->
        {Signal(<<"kak">>), Signal(<<"chto">>), Signal(<<"eto">>), Signal(<<"dlya">>),
         Signal(<<"pochemu">>), Signal(<<"vy">>), Signal(<<"kogda">>)}]

(* lower.includes(token) *)
includes(text, token) ==
    \E p \in 2..Len(text) :
        /\ p + Len(token.words) - 1 <= Len(text) - (IF token.closed THEN 1 ELSE 0)
        /\ \A k \in 1..Len(token.words) : text[p + k - 1] = token.words[k]

hits(text, language) == Cardinality({token \in languageSignals[language] : includes(text, token)})

looksLikeLanguage_tieIsEnglish(text, language) ==
    LET lower == [i \in 1..Len(text) |-> LowerWord(text[i])]
        selected == normalizeLanguage(language)
        selectedHits == hits(lower, selected)
        englishHits == hits(lower, "English")
    IN  IF lower = <<>> THEN FALSE
        ELSE IF selected = "English" THEN englishHits >= 1
        ELSE selectedHits >= 1 /\ selectedHits > englishHits

looksLikeLanguage(text, language) ==
    LET lower == [i \in 1..Len(text) |-> LowerWord(text[i])]
        selected == normalizeLanguage(language)
        selectedHits == hits(lower, selected)
        englishHits == hits(lower, "English")
    IN  IF lower = <<>> THEN FALSE
        ELSE IF selected = "English" THEN englishHits >= 1
        ELSE selectedHits >= 1 /\ selectedHits >= englishHits

(* forceQuestionsLanguage calls the model exactly when this holds *)
needsRewrite(batch, language) ==
    /\ Len(batch) # 0
    /\ normalizeLanguage(language) # "English"
    /\ hasApiKey
    /\ \E i \in 1..Len(batch) :
          ~looksLikeLanguage(batch[i].question, normalizeLanguage(language))

(* the value forceQuestionsLanguage returns when its model call answers `parsed` *)
forceQuestionsLanguage(batch, language, parsed) ==
    IF ~needsRewrite(batch, language) THEN batch
    ELSE IF parsed.kind # "questions" \/ Len(parsed.questions) # Len(batch) THEN batch
    ELSE parsed.questions

EnglishText == <<"what", "about", "your", "goal">>

DutchText == <<"wat", "is", "je", "doel">>

MixedText == <<"vertel", "about", "je", "plan">>

ModelTexts == {EnglishText, DutchText, MixedText}

ModelQuestions == [category : {"Behavioral"}, question : ModelTexts]

ModelReplies ==
    {[kind |-> "throws", questions |-> <<>>], [kind |-> "notArray", questions |-> <<>>]}
    \cup {[kind |-> "questions", questions |-> q] : q \in SeqsUpTo(ModelQuestions, MaxGenerated)}

RequestKeys == {"Behavioral", "Technical", "Leadership"}

RequestLanguages == {"English", "Dutch", "Klingon"}

CategoryCounts == UNION {[keys -> 0..MaxCount] : keys \in SUBSET RequestKeys}

GenRequests ==
    [resume : BOOLEAN,
     jobDescription : BOOLEAN,
     categories : {<<>>} \cup {<<c>> : c \in CategoryCounts},
     language : RequestLanguages]

Fallback(batch, warned) ==
    [status |-> 200, body |-> [questions |-> batch, source |-> "fallback", warning |-> warned]]

Generated(batch) ==
    [status |-> 200, body |-> [questions |-> batch, source |-> "openai", warning |-> FALSE]]

GenerateQuestions ==
    /\ build = "app"
    /\ genRequest # <<>>
    /\ response = <<>>
    /\ LET req == genRequest[1]
           language == req.language
           caught ==
               Fallback(generateFallbackQuestions(req.categories[1], normalizeLanguage(language)),
                        TRUE)
       IN  IF ~req.resume \/ ~req.jobDescription \/ req.categories = <<>>
           THEN response' = <<Failed(400)>> /\ UNCHANGED modelReplies
           ELSE IF ~hasApiKey
           THEN /\ response' =
                      <<Fallback(generateFallbackQuestions(req.categories[1],
                                                           normalizeLanguage(language)), FALSE)>>
                /\ UNCHANGED modelReplies
           ELSE \E parsed \in ModelReplies :
                    IF parsed.kind = "throws"
                    THEN modelReplies' = <<parsed>> /\ response' = <<caught>>
                    ELSE IF parsed.kind = "notArray"
                    THEN modelReplies' = <<parsed>> /\ response' = <<Failed(500)>>
                    ELSE IF ~needsRewrite(parsed.questions, language)
                    THEN /\ modelReplies' = <<parsed>>
                         /\ response' = <<Generated(parsed.questions)>>
                    ELSE \E rewritten \in ModelReplies :
                             /\ modelReplies' = <<parsed, rewritten>>
                             /\ response' =
                                   IF rewritten.kind = "throws" THEN <<caught>>
                                   ELSE <<Generated(forceQuestionsLanguage(parsed.questions,
                                                                            language, rewritten))>>
    /\ UNCHANGED <<build, hasApiKey, genRequest, evalVars, analyzeVars, sessionVars, accountVars>>

server_GenerateQuestions ==
    /\ build = "server"
    /\ genRequest # <<>>
    /\ response = <<>>
    /\ LET req == genRequest[1]
       IN  IF ~req.resume \/ ~req.jobDescription \/ req.categories = <<>>
           THEN response' = <<Failed(400)>> /\ UNCHANGED modelReplies
           ELSE IF ~hasApiKey
           THEN /\ response' =
                      <<Fallback(server_generateFallbackQuestions(req.categories[1]), FALSE)>>
                /\ UNCHANGED modelReplies
           ELSE \E parsed \in ModelReplies :
                    /\ modelReplies' = <<parsed>>
                    /\ response' =
                          IF parsed.kind = "throws"
                          THEN <<Fallback(server_generateFallbackQuestions(req.categories[1]),
                                          TRUE)>>
                          ELSE IF parsed.kind = "notArray" THEN <<Failed(500)>>
                          ELSE <<Generated(parsed.questions)>>
    /\ UNCHANGED <<build, hasApiKey, genRequest, evalVars, analyzeVars, sessionVars, accountVars>>

InitGenerate ==
    /\ build \in Builds
    /\ hasApiKey \in BOOLEAN
    /\ genRequest \in {<<r>> : r \in GenRequests}
    /\ modelReplies = <<>>
    /\ response = <<>>
    /\ transcript = <<>>
    /\ evaluation = <<>>
    /\ analyzeBody = <<>>
    /\ qaPairs = <<>>
    /\ scorerReply = <<>>
    /\ SessionIdle
    /\ AccountIdle

NextGenerate == GenerateQuestions \/ server_GenerateQuestions

SpecGenerate == InitGenerate /\ [][NextGenerate]_vars

(***************************************************************************)
(* The interview session of the browser client (src/public/app.js).  Each  *)
(* handler runs to completion before the next event is handled.            *)
(***************************************************************************)
FOLLOW_UP_LIMIT == 4

SliderMax == 6

MaxQuestions == 6

RECURSIVE sumCounts(_, _)
sumCounts(counts, keys) ==
    IF keys = {} THEN 0
    ELSE LET k == CHOOSE x \in keys : TRUE
         IN  counts[k] + sumCounts(counts, keys \ {k})

(* collectCategoryCounts: the sliders, with at most MaxQuestions questions asked for *)
SliderCounts ==
    {c \in [Categories -> 0..Min(SliderMax, MaxQuestions)] : sumCounts(c,
        Categories) <= MaxQuestions}

AnswerInputs == {<<[w |-> " ", n |-> 1]>>, ResultOnlyAnswer}

(* what POST /api/generate-follow-up brings back *)
FollowUpOutcomes == {"followUp", "emptyFollowUp", "notOk", "networkError"}

FollowUpText == <<"Could you clarify your exact role, key action, and final measurable outcome?">>

Hole == [category |-> "", question |-> <<>>, transcript |-> <<>>, isFollowUp |-> FALSE,
                                         hole |-> TRUE]

setAt_push(arr, i, value) == Append(arr, value)

(* arr[i] = value on a JavaScript array, i counted from 0 *)
setAt(arr, i, value) ==
    [k \in 1..Max(Len(arr), i + 1) |->
        IF k = i + 1 THEN value ELSE IF k <= Len(arr) THEN arr[k] ELSE Hole]

splice_append(arr, i, value) == Append(arr, value)

(* arr.splice(i, 0, value) *)
splice(arr, i, value) ==
    SubSeq(arr, 1, Min(i, Len(arr))) \o <<value>> \o SubSeq(arr, Min(i, Len(arr)) + 1, Len(arr))

(* the accounts of the client, kept in localStorage under USERS_KEY *)
SessionsKept == 40

newUser(email) == [email |-> email, sessions |-> <<>>]

(* what the client reads of a report: data.overallScore and data.results.length *)
ReportsFor(answered) ==
    [overallScore : {JsNumber(64), JsUndefined}, results : {Len(answered)}]

sessionEntry(at, totalScore, resultsCount) ==
    [at |-> at, overallScore |-> totalScore, questions |-> resultsCount]

prependSession_uncapped(entry, sessions) == <<entry>> \o sessions

(* [entry, ...(user.sessions || [])].slice(0, 40) *)
prependSession(entry, sessions) == slice(<<entry>> \o sessions, 0, SessionsKept)

(* persistSession: updateCurrentUser with the mutator that prepends the session *)
persistSession(totalScore, resultsCount) ==
    IF currentUser = <<>> THEN UNCHANGED <<currentUser, users, clock>>
    ELSE IF users[currentUser[1].email] = <<>> THEN UNCHANGED <<currentUser, users, clock>>
    ELSE LET user == users[currentUser[1].email][1]
             updated ==
                 [user EXCEPT
                     !.sessions =
                         prependSession(sessionEntry(clock, totalScore, resultsCount),
                                        user.sessions)]
         IN  /\ users' = [users EXCEPT ![user.email] = <<updated>>]
             /\ currentUser' = <<updated>>
             /\ clock' = clock + 1

renderResults(data) ==
    /\ persistSession(numberOrZero(data.overallScore), data.results)
    /\ screen' = "results"

handleSignup ==
    /\ screen = "auth"
    /\ \E email \in Emails, filled \in BOOLEAN :
          IF ~filled \/ users[email] # <<>>
          THEN alerted' = TRUE /\ UNCHANGED <<screen, currentUser, users>>
          ELSE /\ users' = [users EXCEPT ![email] = <<newUser(email)>>]
               /\ currentUser' = <<newUser(email)>>
               /\ screen' = "setup"
               /\ alerted' = FALSE
    /\ UNCHANGED <<questions, answers, currentIndex, generatedFollowUps, dynamicFollowUpsEnabled,
                   answerText, nextDisabled, followUp, lastAnalysis, clock, pendingVars,
                       languageVars, serverVars, evalVars,
                   analyzeVars, generateVars>>

handleLogin ==
    /\ screen = "auth"
    /\ \E email \in Emails, passwordMatches \in BOOLEAN :
          IF users[email] = <<>> \/ ~passwordMatches
          THEN alerted' = TRUE /\ UNCHANGED <<screen, currentUser>>
          ELSE /\ currentUser' = users[email]
               /\ screen' = "setup"
               /\ alerted' = FALSE
    /\ UNCHANGED <<questions, answers, currentIndex, generatedFollowUps, dynamicFollowUpsEnabled,
                   answerText, nextDisabled, followUp, lastAnalysis, users, clock,
                       pendingVars, languageVars, serverVars,
                   evalVars, analyzeVars, generateVars>>

logout ==
    /\ screen # "auth"
    /\ currentUser' = <<>>
    /\ screen' = "auth"
    /\ alerted' = FALSE
    /\ UNCHANGED <<questions, answers, currentIndex, generatedFollowUps, dynamicFollowUpsEnabled,
                   answerText, nextDisabled, followUp, lastAnalysis, users, clock,
                       pendingVars, languageVars, serverVars,
                   evalVars, analyzeVars, generateVars>>

PrepareInterview ==
    /\ screen = "setup"
    /\ \E categoryCounts \in SliderCounts, followUps \in BOOLEAN :
          LET totalQuestions == sumCounts(categoryCounts, Categories)
              language == interviewLanguage
              data == generateFallbackQuestions(categoryCounts, normalizeLanguage(language))
          IN  IF totalQuestions = 0
              THEN /\ alerted' = TRUE
                   /\ UNCHANGED <<screen, questions, answers, currentIndex, generatedFollowUps,
                                  dynamicFollowUpsEnabled, followUp, interviewLanguage,
                                  sentLanguage>>
              ELSE /\ sentLanguage' = [NothingSent EXCEPT !.generation = <<language>>]
                   /\ interviewLanguage' = languageInput
                   /\ questions' =
                         [i \in 1..Len(data) |->
                             [category |-> data[i].category, question |-> data[i].question,
                              isFollowUp |-> FALSE]]
                   /\ answers' = <<>>
                   /\ currentIndex' = 0
                   /\ generatedFollowUps' = 0
                   /\ dynamicFollowUpsEnabled' = followUps
                   /\ screen' = "instruction"
                   /\ followUp' = "notCalled"
                   /\ alerted' = FALSE
    /\ UNCHANGED <<answerText, nextDisabled, pendingVars, languageInput, serverVars, evalVars,
                   analyzeVars, generateVars, accountVars>>

(* renderCurrentQuestion: the part of it that touches the state *)
renderCurrentQuestion == answerText' = <<>> /\ nextDisabled' = TRUE

StartSimulation ==
    /\ screen = "instruction"
    /\ screen' = "question"
    /\ renderCurrentQuestion
    /\ alerted' = FALSE
    /\ UNCHANGED <<questions, answers, currentIndex, generatedFollowUps, dynamicFollowUpsEnabled,
                   followUp, pendingVars, languageVars, serverVars, evalVars,
                       analyzeVars, generateVars, accountVars>>

(* the input listener of the answer field *)
TypeAnswer ==
    /\ screen = "question"
    /\ \E text \in AnswerInputs :
          /\ answerText' = text
          /\ nextDisabled' = (trim(text) = <<>>)
    /\ alerted' = FALSE
    /\ UNCHANGED <<screen, questions, answers, currentIndex, generatedFollowUps,
                   dynamicFollowUpsEnabled, followUp, pendingVars, languageVars,
                       serverVars, evalVars, analyzeVars,
                   generateVars, accountVars>>

(* retryQuestion.  A transcription that is still awaited belongs to the    *)
(* attempt given up: it is marked, nothing else happens to it.             *)
RetryQuestion ==
    /\ screen = "question"
    /\ answerText' = <<>>
    /\ nextDisabled' = TRUE
    /\ alerted' = FALSE
    /\ transcriptions' = {[t EXCEPT !.retried = TRUE] : t \in transcriptions}
    /\ UNCHANGED <<screen, questions, answers, currentIndex, generatedFollowUps,
                   dynamicFollowUpsEnabled, followUp, inFlight, languageVars, serverVars,
                   evalVars, analyzeVars, generateVars, accountVars>>

requestsFollowUp_noLimit(questionObj) ==
    ~(~dynamicFollowUpsEnabled \/ questionObj.isFollowUp)

(* maybeInsertFollowUp asks the server *)
requestsFollowUp(questionObj) ==
    ~(~dynamicFollowUpsEnabled \/ questionObj.isFollowUp \/ generatedFollowUps >= FOLLOW_UP_LIMIT)

maybeInsertFollowUp_countsRequests(questionObj, outcome) ==
    IF ~requestsFollowUp(questionObj)
    THEN followUp' = "skipped" /\ UNCHANGED <<questions, generatedFollowUps, sentLanguage>>
    ELSE /\ followUp' = outcome
         /\ sentLanguage' = [sentLanguage EXCEPT !.followUp = <<interviewLanguage>>]
         /\ generatedFollowUps' = generatedFollowUps + 1
         /\ IF outcome = "followUp"
            THEN questions' =
                     splice(questions, currentIndex + 1,
                            [category |-> questionObj.category, question |-> FollowUpText,
                             isFollowUp |-> TRUE])
            ELSE UNCHANGED questions

(* maybeInsertFollowUp, from the call to the return, with the outcome of its request *)
maybeInsertFollowUp(questionObj, outcome) ==
    IF ~requestsFollowUp(questionObj)
    THEN followUp' = "skipped" /\ UNCHANGED <<questions, generatedFollowUps, sentLanguage>>
    ELSE /\ followUp' = outcome
         /\ sentLanguage' = [sentLanguage EXCEPT !.followUp = <<interviewLanguage>>]
         /\ IF outcome = "followUp"
            THEN /\ questions' =
                       splice(questions, currentIndex + 1,
                              [category |-> questionObj.category, question |-> FollowUpText,
                               isFollowUp |-> TRUE])
                 /\ generatedFollowUps' = generatedFollowUps + 1
            ELSE UNCHANGED <<questions, generatedFollowUps>>

SaveAnswerAndContinue ==
    /\ screen = "question"
    /\ ~nextDisabled
    /\ LET text == trim(answerText)
           questionObj == questions[currentIndex + 1]
       IN  /\ text # <<>>
           /\ answers' =
                 setAt(answers, currentIndex,
                       [category |-> questionObj.category, question |-> questionObj.question,
                        transcript |-> text, isFollowUp |-> questionObj.isFollowUp,
                        hole |-> FALSE])
           /\ IF currentIndex < Len(questions) - 1
              THEN /\ \E outcome \in FollowUpOutcomes : maybeInsertFollowUp(questionObj, outcome)
                   /\ currentIndex' = currentIndex + 1
                   /\ renderCurrentQuestion
                   /\ UNCHANGED screen
              ELSE /\ screen' = "coaching"
                   /\ followUp' = "notCalled"
                   /\ UNCHANGED <<questions, generatedFollowUps, currentIndex, answerText,
                                  nextDisabled, sentLanguage>>
    /\ alerted' = FALSE
    /\ UNCHANGED <<dynamicFollowUpsEnabled, pendingVars, languageInput, interviewLanguage,
                   serverVars, evalVars, analyzeVars, generateVars, accountVars>>

BackToQuestions ==
    /\ screen = "coaching"
    /\ currentIndex' = Max(0, Len(questions) - 1)
    /\ screen' = "question"
    /\ renderCurrentQuestion
    /\ alerted' = FALSE
    /\ UNCHANGED <<questions, answers, generatedFollowUps, dynamicFollowUpsEnabled, followUp,
                   pendingVars, languageVars, serverVars, evalVars, analyzeVars,
                       generateVars, accountVars>>

(* the Analyze button: the edits of the coaching screen are taken over      *)
(* (here the last answer is the one that may have been edited), then        *)
(* analyzeInterview keeps the report and renders it or, when the request    *)
(* fails, alerts and shows the coaching screen again                        *)
AnalyzeClick ==
    /\ screen = "coaching"
    /\ \E edited \in BOOLEAN, text \in AnswerInputs, ok \in BOOLEAN :
          /\ answers' =
                IF ~edited \/ answers = <<>> \/ answers[Len(answers)].hole THEN answers
                ELSE [answers EXCEPT ![Len(answers)].transcript = trim(text)]
          /\ IF ok
             THEN \E data \in ReportsFor(answers) :
                      /\ lastAnalysis' = <<data>>
                      /\ renderResults(data)
                      /\ alerted' = FALSE
             ELSE /\ screen' = "coaching"
                  /\ alerted' = TRUE
                  /\ UNCHANGED accountVars
    /\ sentLanguage' = [sentLanguage EXCEPT !.analysis = <<interviewLanguage>>]
    /\ UNCHANGED <<questions, currentIndex, generatedFollowUps, dynamicFollowUpsEnabled,
                   answerText, nextDisabled, followUp, pendingVars, languageInput,
                   interviewLanguage, serverVars, evalVars, analyzeVars, generateVars>>

restartFlow ==
    /\ screen = "results"
    /\ questions' = <<>>
    /\ answers' = <<>>
    /\ currentIndex' = 0
    /\ lastAnalysis' = <<>>
    /\ answerText' = <<>>
    /\ screen' = "setup"
    /\ alerted' = FALSE
    /\ UNCHANGED <<generatedFollowUps, dynamicFollowUpsEnabled, nextDisabled, followUp,
                   currentUser, users, clock, pendingVars, languageVars, serverVars, evalVars,
                   analyzeVars, generateVars>>

InterviewLanguages == {"English", "Dutch"}

(* the candidate picks another language in the select of the setup screen *)
ChooseLanguage ==
    /\ screen = "setup"
    /\ \E language \in InterviewLanguages \ {languageInput} : languageInput' = language
    /\ UNCHANGED <<screen, questions, answers, currentIndex, generatedFollowUps,
                   dynamicFollowUpsEnabled, answerText, nextDisabled, followUp, alerted,
                   pendingVars, interviewLanguage, sentLanguage, serverVars, evalVars,
                   analyzeVars, generateVars, accountVars>>

(* A session on the setup screen.  The account that logged in is no longer *)
(* in localStorage (the site data was cleared after the login), so         *)
(* updateCurrentUser finds no entry to write the session history to.       *)
InitSession ==
    /\ SessionIdle
    /\ lastAnalysis = <<>>
    /\ currentUser = <<newUser("ada@example.com")>>
    /\ users = NoAccounts
    /\ clock = 0
    /\ build = "app"
    /\ hasApiKey = FALSE
    /\ response = <<>>
    /\ transcript = <<>>
    /\ evaluation = <<>>
    /\ analyzeBody = <<>>
    /\ qaPairs = <<>>
    /\ scorerReply = <<>>
    /\ genRequest = <<>>
    /\ modelReplies = <<>>

NextSession ==
    \/ PrepareInterview
    \/ StartSimulation
    \/ TypeAnswer
    \/ RetryQuestion
    \/ SaveAnswerAndContinue
    \/ BackToQuestions
    \/ AnalyzeClick
    \/ restartFlow

SpecSession == InitSession /\ [][NextSession]_vars

(* A candidate who goes through the interview: an answer is typed again and *)
(* again, and a Next button that keeps coming back enabled is pressed.      *)
NextInterview ==
    \/ PrepareInterview
    \/ StartSimulation
    \/ TypeAnswer
    \/ SaveAnswerAndContinue

SpecInterview ==
    /\ InitSession
    /\ [][NextInterview]_vars
    /\ WF_vars(StartSimulation)
    /\ WF_vars(TypeAnswer /\ ~nextDisabled')
    /\ SF_vars(SaveAnswerAndContinue)

(* Interviews one after the other, the language chosen anew before each *)
NextLanguage ==
    \/ ChooseLanguage
    \/ PrepareInterview
    \/ StartSimulation
    \/ TypeAnswer
    \/ SaveAnswerAndContinue
    \/ AnalyzeClick
    \/ restartFlow

SpecLanguage == InitSession /\ [][NextLanguage]_vars

(***************************************************************************)
(* Overlapping Next clicks.  saveAnswerAndContinue awaits the follow-up    *)
(* response; the Next button stays enabled meanwhile, so it can be clicked *)
(* again before the response is handled.  The handler is cut at that       *)
(* await: NextClick runs it up to the request, FollowUpResponse runs the   *)
(* rest.  A call that sends no request resumes before any other event and  *)
(* is one step.                                                            *)
(***************************************************************************)
MaxOverlap == 2

(* the sliders of an interview with at most one question of each category *)
AnsweringCounts ==
    {c \in SliderCounts : sumCounts(c, Categories) >= 1 /\ \A k \in Categories : c[k] <= 1}

(* the first question is shown: prepareInterview and the Start button are done *)
InitAnswering ==
    /\ \E categoryCounts \in AnsweringCounts, followUps \in BOOLEAN :
          LET data == generateFallbackQuestions(categoryCounts, "English")
          IN  /\ questions =
                    [i \in 1..Len(data) |->
                        [category |-> data[i].category, question |-> data[i].question,
                         isFollowUp |-> FALSE]]
              /\ dynamicFollowUpsEnabled = followUps
    /\ answers = <<>>
    /\ currentIndex = 0
    /\ generatedFollowUps = 0
    /\ screen = "question"
    /\ answerText = <<>>
    /\ nextDisabled = TRUE
    /\ followUp = "notCalled"
    /\ alerted = FALSE
    /\ inFlight = <<>>
    /\ transcriptions = {}
    /\ languageInput = "English"
    /\ interviewLanguage = "English"
    /\ sentLanguage = [NothingSent EXCEPT !.generation = <<"English">>]
    /\ lastAnalysis = <<>>
    /\ currentUser = <<newUser("ada@example.com")>>
    /\ users = NoAccounts
    /\ clock = 0
    /\ build = "app"
    /\ hasApiKey = FALSE
    /\ response = <<>>
    /\ transcript = <<>>
    /\ evaluation = <<>>
    /\ analyzeBody = <<>>
    /\ qaPairs = <<>>
    /\ scorerReply = <<>>
    /\ genRequest = <<>>
    /\ modelReplies = <<>>

(* saveAnswerAndContinue up to the follow-up request, or to its end when    *)
(* none is sent.  Past the end of the queue questionObj is undefined and    *)
(* the handler throws before it changes anything.                           *)
NextClick ==
    /\ screen = "question"
    /\ ~nextDisabled
    /\ currentIndex < Len(questions)
    /\ LET text == trim(answerText)
           questionObj == questions[currentIndex + 1]
       IN  /\ text # <<>>
           /\ answers' =
                 setAt(answers, currentIndex,
                       [category |-> questionObj.category, question |-> questionObj.question,
                        transcript |-> text, isFollowUp |-> questionObj.isFollowUp,
                        hole |-> FALSE])
           /\ IF currentIndex < Len(questions) - 1
              THEN IF ~requestsFollowUp(questionObj)
                   THEN /\ followUp' = "skipped"
                        /\ currentIndex' = currentIndex + 1
                        /\ renderCurrentQuestion
                        /\ UNCHANGED <<screen, questions, generatedFollowUps, inFlight,
                                       sentLanguage>>
                   ELSE /\ Len(inFlight) < MaxOverlap
                        /\ inFlight' = Append(inFlight, questionObj)
                        /\ sentLanguage' =
                              [sentLanguage EXCEPT !.followUp = <<interviewLanguage>>]
                        /\ UNCHANGED <<screen, questions, generatedFollowUps, currentIndex,
                                       answerText, nextDisabled, followUp>>
              ELSE /\ screen' = "coaching"
                   /\ followUp' = "notCalled"
                   /\ UNCHANGED <<questions, generatedFollowUps, currentIndex, answerText,
                                  nextDisabled, inFlight, sentLanguage>>
    /\ alerted' = FALSE
    /\ UNCHANGED <<dynamicFollowUpsEnabled, transcriptions, languageInput, interviewLanguage,
                   serverVars, evalVars, analyzeVars, generateVars, accountVars>>

(* the rest of maybeInsertFollowUp and of saveAnswerAndContinue, once the   *)
(* response of one of the waiting calls is there.  renderCurrentQuestion    *)
(* throws at its first line when currentIndex is past the end of the queue. *)
FollowUpResponse ==
    /\ \E k \in 1..Len(inFlight), outcome \in FollowUpOutcomes :
          LET questionObj == inFlight[k]
          IN  /\ inFlight' = SubSeq(inFlight, 1, k - 1) \o SubSeq(inFlight, k + 1, Len(inFlight))
              /\ followUp' = outcome
              /\ IF outcome = "followUp"
                 THEN /\ questions' =
                            splice(questions, currentIndex + 1,
                                   [category |-> questionObj.category,
                                    question |-> FollowUpText, isFollowUp |-> TRUE])
                      /\ generatedFollowUps' = generatedFollowUps + 1
                 ELSE UNCHANGED <<questions, generatedFollowUps>>
    /\ currentIndex' = currentIndex + 1
    /\ IF currentIndex' < Len(questions') THEN renderCurrentQuestion
       ELSE UNCHANGED <<answerText, nextDisabled>>
    /\ UNCHANGED <<screen, answers, dynamicFollowUpsEnabled, alerted, transcriptions,
                   languageVars, serverVars, evalVars, analyzeVars, generateVars, accountVars>>

NextOverlap ==
    \/ NextClick
    \/ FollowUpResponse
    \/ TypeAnswer
    \/ RetryQuestion
    \/ AnalyzeClick

SpecOverlap == InitAnswering /\ [][NextOverlap]_vars

(***************************************************************************)
(* Transcription.  Stopping the recorder sends the audio to                *)
(* /api/transcribe; the response is handled whenever it arrives.  A        *)
(* waiting request remembers the question that was shown when the audio    *)
(* was recorded.                                                           *)
(***************************************************************************)
MaxTranscribing == 1

(* what POST /api/transcribe brings back: a failure, or data.transcript || '' *)
TranscriptionReplies ==
    {[ok |-> FALSE, transcript |-> <<>>]}
    \cup {[ok |-> TRUE, transcript |-> t] : t \in AnswerInputs \cup {<<>>}}

(* the Stop button: mediaRecorder.onstop runs transcribeAudio up to its request *)
stopRecording ==
    /\ screen = "question"
    /\ Cardinality(transcriptions) < MaxTranscribing
    /\ transcriptions' = transcriptions \cup {[forIndex |-> currentIndex, retried |-> FALSE]}
    /\ UNCHANGED <<screen, questions, answers, currentIndex, generatedFollowUps,
                   dynamicFollowUpsEnabled, answerText, nextDisabled, followUp, alerted,
                   inFlight, languageVars, serverVars, evalVars, analyzeVars, generateVars,
                   accountVars>>

(* transcribeAudio from the response on *)
TranscriptionResponse ==
    /\ \E t \in transcriptions, reply \in TranscriptionReplies :
          /\ transcriptions' = transcriptions \ {t}
          /\ answerText' = IF reply.ok THEN reply.transcript ELSE answerText
          /\ nextDisabled' = (trim(answerText') = <<>>)
    /\ UNCHANGED <<screen, questions, answers, currentIndex, generatedFollowUps,
                   dynamicFollowUpsEnabled, followUp, alerted, inFlight, languageVars,
                   serverVars, evalVars, analyzeVars, generateVars, accountVars>>

NextTranscribe ==
    \/ stopRecording
    \/ TranscriptionResponse
    \/ TypeAnswer
    \/ RetryQuestion
    \/ SaveAnswerAndContinue

SpecTranscribe == InitAnswering /\ [][NextTranscribe]_vars

(* C3: in a session whose Next clicks are handled one after the other, the *)
(* count of generated follow-ups never exceeds FOLLOW_UP_LIMIT, however     *)
(* many eligible answers are saved and whatever the generator returns.      *)
C3_FollowUpsWithinLimit == generatedFollowUps <= FOLLOW_UP_LIMIT

(* four follow-ups were generated and answered; a fifth eligible answer was *)
(* then saved and no follow-up was put behind it                            *)
C3_FifthEligibleAnswerSaved ==
    /\ dynamicFollowUpsEnabled
    /\ screen = "question"
    /\ generatedFollowUps = FOLLOW_UP_LIMIT
    /\ currentIndex = 2 * FOLLOW_UP_LIMIT + 1
    /\ Len(answers) = currentIndex
    /\ Len(questions) > currentIndex
    /\ ~answers[currentIndex].isFollowUp
    /\ ~questions[currentIndex + 1].isFollowUp

(* a Next click on the question screen that saved an answer *)
AnswerSaved ==
    /\ screen = "question"
    /\ ~nextDisabled
    /\ \/ currentIndex' = currentIndex + 1
       \/ screen' = "coaching"

(* C16: whenever an answer to a question that is no follow-up is saved,     *)
(* with follow-ups enabled and fewer than 4 generated, one follow-up        *)
(* request is sent for it, whatever the position of the question            *)
C16_EligibleAnswerRequestsFollowUp ==
    [][(/\ AnswerSaved
        /\ ~questions[currentIndex + 1].isFollowUp
        /\ dynamicFollowUpsEnabled
        /\ generatedFollowUps < FOLLOW_UP_LIMIT)
          => followUp' \in FollowUpOutcomes]_vars

FollowUpsBehindTheirQuestion ==
    \A i \in 1..Len(questions) :
        questions[i].isFollowUp =>
            /\ i > 1
            /\ ~questions[i - 1].isFollowUp
            /\ questions[i - 1].category = questions[i].category

C23_OneAnswerPerQuestion ==
    screen = "coaching" =>
        /\ Len(answers) = Len(questions)
        /\ \A i \in 1..Len(questions) :
              /\ ~answers[i].hole
              /\ answers[i].category = questions[i].category
              /\ answers[i].question = questions[i].question
              /\ answers[i].isFollowUp = questions[i].isFollowUp

(* the coaching screen of an interview with a follow-up in the queue: the   *)
(* follow-up has its answer at its own position                             *)
C23_CoachingAfterFollowUp ==
    /\ screen = "coaching"
    /\ Len(questions) >= 3
    /\ questions[2].isFollowUp
    /\ answers[2].isFollowUp
    /\ generatedFollowUps >= 1
    /\ answerText # <<>>

(* N: the questions of the queue that were generated for the interview *)
generatedQuestions == Cardinality({i \in 1..Len(questions) : ~questions[i].isFollowUp})

C28_OneLanguagePerInterview ==
    (screen # "setup" /\ sentLanguage.generation # <<>>) =>
        /\ sentLanguage.generation = <<languageInput>>
        /\ sentLanguage.followUp # <<>> => sentLanguage.followUp = sentLanguage.generation
        /\ sentLanguage.analysis # <<>> => sentLanguage.analysis = sentLanguage.generation

(* C25: also when Next is clicked again while an earlier click still waits  *)
(* for its follow-up response, generatedFollowUps stays within 4 and no     *)
(* question gets a second follow-up behind its first                        *)
C25_OverlappingSavesWithinLimit ==
    /\ generatedFollowUps <= FOLLOW_UP_LIMIT
    /\ \A i \in 2..Len(questions) : questions[i].isFollowUp => ~questions[i - 1].isFollowUp

(* C26: also with overlapping Next clicks, every question before the        *)
(* current one has its answer stored, and the answer list that goes to the  *)
(* analysis has an answer at every position of the queue                    *)
C26_NoQuestionSkipped ==
    /\ \A i \in 1..Min(currentIndex, Len(questions)) :
          i <= Len(answers) /\ ~answers[i].hole
    /\ sentLanguage.analysis # <<>> =>
          /\ Len(answers) = Len(questions)
          /\ \A i \in 1..Len(answers) : ~answers[i].hole

(* C27: a transcription response that arrives after the candidate moved to *)
(* another question, or retried, changes neither the answer text nor the    *)
(* Next button: a transcript is written only into the answer field of the   *)
(* question whose audio it is                                               *)
C27_LateTranscriptIgnored ==
    [][\A t \in transcriptions :
          (transcriptions' = transcriptions \ {t} /\ (t.forIndex # currentIndex \/ t.retried))
              => (answerText' = answerText /\ nextDisabled' = nextDisabled)]_vars

UsedFallback ==
    /\ response # <<>>
    /\ response[1].status = 200
    /\ response[1].body.source = "fallback"

AllKeys == {KeyOrder[i] : i \in 1..Len(KeyOrder)}

requestedCount(key) ==
    LET cats == genRequest[1].categories[1]
    IN  IF key \in DOMAIN cats THEN cats[key] ELSE 0

RECURSIVE sumRequested(_)
sumRequested(keys) ==
    IF keys = {} THEN 0
    ELSE LET k == CHOOSE x \in keys : TRUE
         IN  requestedCount(k) + sumRequested(keys \ {k})

(* C9: a list made by the local fallback, whether no upstream service is    *)
(* configured or the upstream call failed, holds for every category exactly *)
(* the requested number of questions, none for a category that was not      *)
(* requested or was requested with 0, and as many questions in all as the   *)
(* counts add up to.                                                        *)
C9_FallbackCountsExact ==
    UsedFallback =>
        LET batch == response[1].body.questions
        IN  /\ \A key \in AllKeys :
                  Cardinality({i \in 1..Len(batch) : batch[i].category = key})
                      = requestedCount(key)
            /\ \A i \in 1..Len(batch) : batch[i].category \in AllKeys
            /\ Len(batch) = sumRequested(AllKeys)

(* the upstream call failed and the fallback served a request with a count  *)
(* of 2, a count of 0 and a count of 1                                      *)
C9_FallbackAfterUpstreamFailure ==
    /\ UsedFallback
    /\ build = "app"
    /\ response[1].body.warning
    /\ modelReplies # <<>>
    /\ genRequest[1].categories[1] = [Behavioral |-> 2, Technical |-> 0, Leadership |-> 1]

RewriteCalled == Len(modelReplies) = 2

(* C14: for a language other than English and every outcome of the rewrite  *)
(* call (same length, other length, no questions array, failed call) the    *)
(* request succeeds and returns either the rewritten batch, of the length   *)
(* of the original, or the originally generated batch unchanged             *)
C14_RewriteFailsOpen ==
    (Responded /\ build = "app" /\ RewriteCalled) =>
        LET original == modelReplies[1].questions
            rewritten == modelReplies[2]
            returned == response[1].body.questions
        IN  /\ response[1].status = 200
            /\ \/ returned = original
               \/ /\ rewritten.kind = "questions"
                  /\ Len(rewritten.questions) = Len(original)
                  /\ returned = rewritten.questions

(* the number of signals of `language` found in the lower-cased text *)
signalCount(text, language) == hits([i \in 1..Len(text) |-> LowerWord(text[i])], language)

(* the model generated a batch for a request in a language other than English *)
GeneratedInOtherLanguage ==
    /\ Responded
    /\ build = "app"
    /\ modelReplies # <<>>
    /\ modelReplies[1].kind = "questions"
    /\ normalizeLanguage(genRequest[1].language) # "English"

(* C19: for a language other than English a question counts as mismatched,  *)
(* and the batch is rewritten, exactly when the question has no signal of   *)
(* the target language or more English signals than signals of the target  *)
(* language; a question with equal non-zero counts is not mismatched        *)
C19_MismatchIsFewerTargetSignals ==
    GeneratedInOtherLanguage =>
        LET selected == normalizeLanguage(genRequest[1].language)
            batch == modelReplies[1].questions
        IN  RewriteCalled <=>
                \E i \in 1..Len(batch) :
                    \/ signalCount(batch[i].question, selected) = 0
                    \/ signalCount(batch[i].question, "English")
                           > signalCount(batch[i].question, selected)

(* C19 as stated: mismatched exactly when the English count is at least the *)
(* target count, or the target count is zero                                *)
C19_MismatchIsEnglishAtLeastTarget ==
    GeneratedInOtherLanguage =>
        LET selected == normalizeLanguage(genRequest[1].language)
            batch == modelReplies[1].questions
        IN  RewriteCalled <=>
                \E i \in 1..Len(batch) :
                    \/ signalCount(batch[i].question, selected) = 0
                    \/ signalCount(batch[i].question, "English")
                           >= signalCount(batch[i].question, selected)

(* a generated question with one English and one Dutch signal was returned  *)
(* for a Dutch request without a rewrite                                    *)
C19_TieKeptAsGenerated ==
    /\ GeneratedInOtherLanguage
    /\ ~RewriteCalled
    /\ \E i \in 1..Len(modelReplies[1].questions) :
          LET text == modelReplies[1].questions[i].question
          IN  /\ signalCount(text, "Dutch") = 1
              /\ signalCount(text, "English") = 1
    /\ response[1].body.source = "openai"

(***************************************************************************)
(* Both handlers facing complete and incomplete requests: one request is   *)
(* pending, for generate-questions or for analyze-interview.               *)
(***************************************************************************)
InitRequests ==
    /\ build \in Builds
    /\ hasApiKey \in BOOLEAN
    /\ \/ genRequest \in {<<r>> : r \in GenRequests} /\ analyzeBody = <<>>
       \/ genRequest = <<>> /\ analyzeBody \in {<<b>> : b \in AnalyzeBodies}
    /\ qaPairs = <<>>
    /\ scorerReply = <<>>
    /\ modelReplies = <<>>
    /\ response = <<>>
    /\ transcript = <<>>
    /\ evaluation = <<>>
    /\ SessionIdle
    /\ AccountIdle

NextRequests ==
    \/ SubmitAnswer
    \/ AnalyzeInterview
    \/ server_AnalyzeInterview
    \/ GenerateQuestions
    \/ server_GenerateQuestions

SpecRequests == InitRequests /\ [][NextRequests]_vars

Rejected ==
    /\ response[1].status = 400
    /\ "questions" \notin DOMAIN response[1].body
    /\ "results" \notin DOMAIN response[1].body
    /\ scorerReply = <<>>
    /\ modelReplies = <<>>

(* C13: a generate-questions request without resume, job description or     *)
(* categories, and an analyze-interview request without resume or job       *)
(* description or whose answers are absent, not an array or empty, gets an  *)
(* error response that holds neither questions nor a report, and no         *)
(* external call has been made for it                                       *)
C13_IncompleteRequestsRejected ==
    /\ (Responded /\ genRequest # <<>>
          /\ (\/ ~genRequest[1].resume
              \/ ~genRequest[1].jobDescription
              \/ genRequest[1].categories = <<>>))
          => Rejected
    /\ (Responded /\ analyzeBody # <<>>
          /\ (\/ ~analyzeBody[1].resume
              \/ ~analyzeBody[1].jobDescription
              \/ analyzeBody[1].qaPairs \in {"absent", "notArray"}
              \/ qaPairs = <<>>))
          => Rejected

(* answers were submitted to a server with a key, the resume was missing,   *)
(* and the request was rejected                                             *)
C13_AnswersWithoutResumeRejected ==
    /\ Responded
    /\ hasApiKey
    /\ analyzeBody # <<>>
    /\ ~analyzeBody[1].resume
    /\ analyzeBody[1].jobDescription
    /\ Len(qaPairs) >= 1
    /\ response[1].status = 400

(***************************************************************************)
(* The session history of an account.  One question has been answered and  *)
(* the coaching screen is shown; the account that is logged in has         *)
(* completed some interviews before.                                       *)
(***************************************************************************)
PriorInterviews == {0, 1, SessionsKept - 1, SessionsKept}

(* the history that n earlier interviews left, the latest of them first *)
priorSessions(n) == [i \in 1..n |-> sessionEntry(0 - i, 64, 3)]

AnsweredQuestion ==
    [category |-> "Behavioral", question |-> getFallbackQuestion("English", "Behavioral", 0)]

InitHistory ==
    /\ screen = "coaching"
    /\ questions = <<[category |-> AnsweredQuestion.category,
                      question |-> AnsweredQuestion.question, isFollowUp |-> FALSE]>>
    /\ answers = <<[category |-> AnsweredQuestion.category,
                    question |-> AnsweredQuestion.question, transcript |-> ResultOnlyAnswer,
                    isFollowUp |-> FALSE, hole |-> FALSE]>>
    /\ currentIndex = 0
    /\ generatedFollowUps = 0
    /\ dynamicFollowUpsEnabled = TRUE
    /\ answerText = ResultOnlyAnswer
    /\ nextDisabled = FALSE
    /\ followUp = "notCalled"
    /\ alerted = FALSE
    /\ ClientIdle
    /\ lastAnalysis = <<>>
    /\ \E n \in PriorInterviews, others \in SUBSET (Emails \ {"ada@example.com"}) :
          LET ada == [email |-> "ada@example.com", sessions |-> priorSessions(n)]
          IN  /\ users =
                    [email \in Emails |->
                        IF email = ada.email THEN <<ada>>
                        ELSE IF email \in others THEN <<newUser(email)>> ELSE <<>>]
              /\ currentUser = <<ada>>
    /\ clock = 0
    /\ build = "app"
    /\ hasApiKey = FALSE
    /\ response = <<>>
    /\ transcript = <<>>
    /\ evaluation = <<>>
    /\ analyzeBody = <<>>
    /\ qaPairs = <<>>
    /\ scorerReply = <<>>
    /\ genRequest = <<>>
    /\ modelReplies = <<>>

NextHistory ==
    \/ AnalyzeClick
    \/ BackToQuestions
    \/ TypeAnswer
    \/ RetryQuestion
    \/ SaveAnswerAndContinue
    \/ restartFlow
    \/ logout
    \/ handleLogin
    \/ handleSignup

SpecHistory == InitHistory /\ [][NextHistory]_vars

sessionsOf(accounts, email) == IF accounts[email] = <<>> THEN <<>> ELSE accounts[email][1].sessions

(* C15: the history of an account holds at most 40 entries, the most recent *)
(* first; a report rendered for the logged-in account puts exactly one      *)
(* entry {timestamp, overallScore, number of results} in front of it and    *)
(* what lies beyond the 40 most recent entries is dropped                   *)
C15_HistoryCapped ==
    /\ [](\A email \in Emails :
            LET sessions == sessionsOf(users, email)
            IN  /\ Len(sessions) <= 40
                /\ \A i \in 1..(Len(sessions) - 1) : sessions[i].at > sessions[i + 1].at)
    /\ [][(screen = "coaching" /\ screen' = "results" /\ currentUser # <<>>) =>
             LET email == currentUser[1].email
                 before == sessionsOf(users, email)
                 after == sessionsOf(users', email)
                 data == lastAnalysis'[1]
             IN  /\ Len(after) = IF Len(before) < 40 THEN Len(before) + 1 ELSE 40
                 /\ after[1].at = clock
                 /\ after[1].overallScore
                       = IF data.overallScore.t = "number" THEN data.overallScore.v ELSE 0
                 /\ after[1].questions = data.results
                 /\ \A i \in 2..Len(after) : after[i] = before[i - 1]
                 /\ \A e \in Emails \ {email} : users'[e] = users[e]]_vars

(* the account already held 40 entries and one more report was rendered for it *)
C15_OldestEntryDropped ==
    /\ screen = "results"
    /\ currentUser # <<>>
    /\ Len(currentUser[1].sessions) = 40
    /\ currentUser[1].sessions[1].at = 0
    /\ currentUser[1].sessions[40].at = 0 - 39
    /\ sessionsOf(users, currentUser[1].email) = currentUser[1].sessions

====
